---- MODULE Spec2Model ----
(***************************************************************************)
(* Scaled dot-product attention and multi-head attention of                *)
(* Transformer_02_multi_head_attention.ipynb, as a state machine over      *)
(* small tensors.                                                          *)
(*                                                                         *)
(* A tensor is a record [shape, data]: shape is the sequence of its        *)
(* dimension sizes and data maps every index tuple (1-based) to a float.   *)
(* A float is a record [k, v]: k is "fin", "ninf", "pinf" or "nan" and v   *)
(* is the value of a finite float in the fixed-point unit of the tensor    *)
(* that holds it: inputs, parameters and projections count units of 1,     *)
(* attention scores units of 1/SCORE_ONE, attention weights and what is    *)
(* computed from them units of 1/W_ONE.                                    *)
(***************************************************************************)
EXTENDS Integers, Sequences, FiniteSets

\* ---------------------------------------------------------------- bounds
MaxBatch == 2
MaxSeq == 2
MaxDim == 2
MaxHead == 2
MaxSeed == 0
MaxMaskCode == 8

\* ------------------------------------------------- float representation
\* torch.float scores are kept to 1/SCORE_ONE, exponentials to 1/EXP_ONE and
\* softmax weights to 1/W_ONE; TOL is 1e-5 in units of 1/W_ONE.
SCORE_ONE == 1000
EXP_ONE == 1000
W_ONE == 1000000
TOL == W_ONE \div 100000

Fin(n) == [k |-> "fin", v |-> n]
NINF == [k |-> "ninf", v |-> 0]
PINF == [k |-> "pinf", v |-> 0]
NAN == [k |-> "nan", v |-> 0]

IsFin(a) == a.k = "fin"
IsNaN(a) == a.k = "nan"

Sign(a) == IF a.k = "pinf" THEN 1
           ELSE IF a.k = "ninf" THEN -1
           ELSE IF a.v > 0 THEN 1 ELSE IF a.v < 0 THEN -1 ELSE 0

\* IEEE product
FMul(a, b) ==
    IF IsNaN(a) \/ IsNaN(b) THEN NAN
    ELSE IF IsFin(a) /\ IsFin(b) THEN Fin(a.v * b.v)
    ELSE IF Sign(a) * Sign(b) = 0 THEN NAN
    ELSE IF Sign(a) * Sign(b) > 0 THEN PINF ELSE NINF

\* IEEE sum
FAdd(a, b) ==
    IF IsNaN(a) \/ IsNaN(b) THEN NAN
    ELSE IF IsFin(a) /\ IsFin(b) THEN Fin(a.v + b.v)
    ELSE IF IsFin(a) THEN b
    ELSE IF IsFin(b) THEN a
    ELSE IF a.k = b.k THEN a ELSE NAN

\* sum of f[i] for i in lo..hi
RECURSIVE FSum(_, _, _)
FSum(f, lo, hi) == IF lo > hi THEN Fin(0) ELSE FAdd(f[lo], FSum(f, lo + 1, hi))

\* ------------------------------------------------------- shapes, indices
RECURSIVE Prod(_)
Prod(sh) == IF sh = <<>> THEN 1 ELSE Head(sh) * Prod(Tail(sh))

RECURSIVE Indices(_)
Indices(sh) ==
    IF sh = <<>> THEN {<<>>}
    ELSE {<<i>> \o r : i \in 1..Head(sh), r \in Indices(Tail(sh))}

\* row-major offset (0-based) of index idx in a contiguous tensor of shape sh
RECURSIVE Flat(_, _)
Flat(sh, idx) ==
    IF sh = <<>> THEN 0
    ELSE (Head(idx) - 1) * Prod(Tail(sh)) + Flat(Tail(sh), Tail(idx))

\* the index whose row-major offset is n
RECURSIVE Unflat(_, _)
Unflat(sh, n) ==
    IF sh = <<>> THEN <<>>
    ELSE <<(n \div Prod(Tail(sh))) + 1>> \o Unflat(Tail(sh), n % Prod(Tail(sh)))

Rank(T) == Len(T.shape)
Size(T, d) == T.shape[d]
Last(s) == s[Len(s)]
Front(s) == SubSeq(s, 1, Len(s) - 1)
Max(a, b) == IF a >= b THEN a ELSE b

\* ------------------------------------------------------------ broadcasting
Pad(sh, n) == [i \in 1..n |-> IF i <= n - Len(sh) THEN 1 ELSE sh[i - (n - Len(sh))]]

Broadcastable(s1, s2) ==
    LET n == Max(Len(s1), Len(s2))
        a == Pad(s1, n)
        b == Pad(s2, n)
    IN \A i \in 1..n : a[i] = b[i] \/ a[i] = 1 \/ b[i] = 1

BroadcastShape(s1, s2) ==
    LET n == Max(Len(s1), Len(s2))
        a == Pad(s1, n)
        b == Pad(s2, n)
    IN [i \in 1..n |-> IF a[i] = 1 THEN b[i] ELSE a[i]]

\* the index of an operand of shape sh that the broadcast result's index idx reads
BroadcastIdx(sh, idx) ==
    LET off == Len(idx) - Len(sh)
    IN [i \in 1..Len(sh) |-> IF sh[i] = 1 THEN 1 ELSE idx[i + off]]

\* ------------------------------------------------------- tensor operations
Tensor(sh, f) == [shape |-> sh, data |-> f]

\* Tensor.transpose(d1, d2)
Swap(s, d1, d2) ==
    [i \in 1..Len(s) |-> IF i = d1 THEN s[d2] ELSE IF i = d2 THEN s[d1] ELSE s[i]]

transpose(T, d1, d2) ==
    LET sh == Swap(T.shape, d1, d2)
    IN Tensor(sh, [idx \in Indices(sh) |-> T.data[Swap(idx, d1, d2)]])

\* Tensor.view(shape) of a contiguous tensor; at most one entry of sh is -1
ViewOk(T, sh) ==
    LET known == Prod([i \in 1..Len(sh) |-> IF sh[i] = -1 THEN 1 ELSE sh[i]])
    IN IF \E i \in 1..Len(sh) : sh[i] = -1
       THEN known > 0 /\ Prod(T.shape) % known = 0
       ELSE known = Prod(T.shape)

ViewShape(T, sh) ==
    LET known == Prod([i \in 1..Len(sh) |-> IF sh[i] = -1 THEN 1 ELSE sh[i]])
    IN [i \in 1..Len(sh) |-> IF sh[i] = -1 THEN Prod(T.shape) \div known ELSE sh[i]]

view(T, sh) ==
    LET ns == ViewShape(T, sh)
    IN Tensor(ns, [idx \in Indices(ns) |-> T.data[Unflat(T.shape, Flat(ns, idx))]])

\* Tensor.unsqueeze(d): a new axis of size 1 at position d (1-based)
unsqueeze(T, d) ==
    LET n == Rank(T) + 1
        sh == [i \in 1..n |-> IF i < d THEN T.shape[i]
                              ELSE IF i = d THEN 1 ELSE T.shape[i - 1]]
    IN Tensor(sh, [idx \in Indices(sh) |->
           T.data[[i \in 1..(n - 1) |-> IF i < d THEN idx[i] ELSE idx[i + 1]]]])

\* torch.matmul of two tensors of rank >= 2: batch axes broadcast
MatmulOk(A, B) ==
    /\ Rank(A) >= 2 /\ Rank(B) >= 2
    /\ Last(A.shape) = B.shape[Rank(B) - 1]
    /\ Broadcastable(SubSeq(A.shape, 1, Rank(A) - 2), SubSeq(B.shape, 1, Rank(B) - 2))

matmul(A, B) ==
    LET ba == SubSeq(A.shape, 1, Rank(A) - 2)
        bb == SubSeq(B.shape, 1, Rank(B) - 2)
        bs == BroadcastShape(ba, bb)
        nb == Len(bs)
        sh == bs \o <<A.shape[Rank(A) - 1], Last(B.shape)>>
        inner == Last(A.shape)
    IN Tensor(sh, [idx \in Indices(sh) |->
           LET b == SubSeq(idx, 1, nb)
               ia == BroadcastIdx(ba, b)
               ib == BroadcastIdx(bb, b)
           IN FSum([t \in 1..inner |->
                      FMul(A.data[ia \o <<idx[nb + 1], t>>],
                           B.data[ib \o <<t, idx[nb + 2]>>])], 1, inner)])

\* tensor * scalar
scale(T, c) == Tensor(T.shape, [idx \in Indices(T.shape) |-> FMul(T.data[idx], Fin(c))])

\* nn.Linear(in, out, bias=False): W has shape <<out, in>>, y = x W^T
LinearOk(W, X) == Rank(X) >= 1 /\ Last(X.shape) = W.shape[2]

Linear(W, X) ==
    LET sh == Front(X.shape) \o <<W.shape[1]>>
        n == W.shape[2]
    IN Tensor(sh, [idx \in Indices(sh) |->
           FSum([t \in 1..n |-> FMul(X.data[Front(idx) \o <<t>>],
                                      W.data[<<Last(idx), t>>])], 1, n)])

\* mask == c, elementwise
eq(T, c) == Tensor(T.shape, [idx \in Indices(T.shape) |-> T.data[idx] = Fin(c)])

\* Tensor.masked_fill(mask, value), out of place: tensor and mask broadcast together
MaskedFillOk(T, M) == Broadcastable(T.shape, M.shape)

masked_fill(T, M, value) ==
    LET sh == BroadcastShape(T.shape, M.shape)
    IN Tensor(sh, [idx \in Indices(sh) |->
           IF M.data[BroadcastIdx(M.shape, idx)] THEN value
           ELSE T.data[BroadcastIdx(T.shape, idx)]])

\* torch.rsqrt(torch.tensor(d_k, dtype=torch.float)), in units of 1/SCORE_ONE
rsqrt(d) ==
    LET q == (SCORE_ONE * SCORE_ONE) \div d
    IN CHOOSE r \in 0..SCORE_ONE : r * r <= q /\ (r + 1) * (r + 1) > q

\* e^(-f/SCORE_ONE) for 0 <= f < SCORE_ONE, in units of 1/(EXP_ONE * SCORE_ONE):
\* the Taylor series from term k on, term being its k-th term's magnitude
RECURSIVE ExpSeries(_, _, _)
ExpSeries(f, k, term) ==
    IF term = 0 THEN 0
    ELSE term - ExpSeries(f, k + 1, (term * f) \div (SCORE_ONE * (k + 1)))

\* v / e^n
RECURSIVE DivE(_, _)
DivE(v, n) == IF n = 0 \/ v = 0 THEN v ELSE DivE((v * 1000) \div 2718, n - 1)

\* e^(-t/SCORE_ONE) for t >= 0, rounded to units of 1/EXP_ONE
ExpNeg(t) ==
    LET frac == ExpSeries(t % SCORE_ONE, 0, EXP_ONE * SCORE_ONE)
    IN (DivE(frac, t \div SCORE_ONE) + SCORE_ONE \div 2) \div SCORE_ONE

\* the largest of the floats row[1..n], none of them NaN
RECURSIVE RowMax(_, _)
RowMax(row, n) ==
    IF n = 1 THEN row[1]
    ELSE LET m == RowMax(row, n - 1)
             x == row[n]
         IN IF x.k = "pinf" \/ m.k = "pinf" THEN PINF
            ELSE IF x.k = "ninf" THEN m
            ELSE IF m.k = "ninf" THEN x
            ELSE IF x.v > m.v THEN x ELSE m

RECURSIVE IntSum(_, _)
IntSum(f, n) == IF n = 0 THEN 0 ELSE f[n] + IntSum(f, n - 1)

\* SoftmaxRow with a guard: a row of scores that are all -inf gets weights 0
SoftmaxRowGuarded(row, n) ==
    IF \A j \in 1..n : row[j] = NINF THEN [j \in 1..n |-> Fin(0)]
    ELSE LET m == RowMax(row, n)
             e == [j \in 1..n |-> IF IsFin(row[j]) THEN ExpNeg(m.v - row[j].v) ELSE 0]
             den == IntSum(e, n)
         IN [j \in 1..n |-> Fin((e[j] * W_ONE + den \div 2) \div den)]

\* softmax of one row of scores: exp(x - max) / sum(exp(x - max)), in units of
\* 1/W_ONE. A NaN score, or a maximum that is infinite (x - max is then NaN at the
\* maximum), makes the sum and with it every weight NaN.
SoftmaxRow(row, n) ==
    IF \E j \in 1..n : IsNaN(row[j]) THEN [j \in 1..n |-> NAN]
    ELSE LET m == RowMax(row, n)
         IN IF ~IsFin(m) THEN [j \in 1..n |-> NAN]
            ELSE LET e == [j \in 1..n |-> IF IsFin(row[j]) THEN ExpNeg(m.v - row[j].v)
                                          ELSE 0]
                     den == IntSum(e, n)
                 IN [j \in 1..n |-> Fin((e[j] * W_ONE + den \div 2) \div den)]

\* nn.Softmax(dim): dim is the axis (1-based) the weights are normalised along
SoftmaxLast(T) ==
    LET n == Last(T.shape)
        rows == [p \in Indices(Front(T.shape)) |->
                    SoftmaxRow([j \in 1..n |-> T.data[p \o <<j>>]], n)]
    IN Tensor(T.shape, [idx \in Indices(T.shape) |-> rows[Front(idx)][Last(idx)]])

Softmax(T, dim) ==
    transpose(SoftmaxLast(transpose(T, dim, Rank(T))), dim, Rank(T))

\* --------------------------------------------------------- random tensors
\* torch.randn(shape) and the initial weight of nn.Linear: the entries are drawn
\* from {-1, 0, 1}, the draw being decided by a seed
Noise(seed, n) == ((seed + 2 * n + n \div 3) % 3) - 1

randn(sh, seed) == Tensor(sh, [idx \in Indices(sh) |-> Fin(Noise(seed, Flat(sh, idx)))])

\* a mask whose entries are 0, 1 or 2: the entry at row-major offset n is the n-th
\* base-3 digit of code; with wrap, every row of the last axis repeats the first two
RECURSIVE Pow(_, _)
Pow(b, n) == IF n = 0 THEN 1 ELSE b * Pow(b, n - 1)

Digit(code, n) == (code \div Pow(3, n)) % 3

MaskOf(sh, code, wrap) ==
    Tensor(sh, [idx \in Indices(sh) |->
        Fin(Digit(code, IF wrap THEN (Last(idx) - 1) % 2 ELSE Flat(sh, idx)))])

\* an optional tensor: None, or Some(T)
NoTensor == Tensor(<<0>>, <<>>)
None == [none |-> TRUE, t |-> NoTensor]
Some(T) == [none |-> FALSE, t |-> T]

\* ------------------------------------------- ScaledDotProductAttention
\* nn.Softmax(dim=-2): normalised along the query axis
SoftmaxDimQuery(rank) == rank - 1

\* __init__: the attributes set at construction
SoftmaxDim(rank) == rank

ScaledDotProductAttention(d_k) == [scaling_factor |-> rsqrt(d_k)]

\* mask == 0: the mask read the other way round
MaskedIfZero(mask) == eq(mask, 0)

\* mask != 0: every nonzero entry excludes
MaskedIfNonzero(mask) ==
    Tensor(mask.shape, [idx \in Indices(mask.shape) |-> mask.data[idx] # Fin(0)])

\* the entries of the mask that exclude a position
Masked(mask) == eq(mask, 1)

Failed == [ok |-> FALSE, output |-> NoTensor, attn_weights |-> NoTensor,
           raw_scores |-> NoTensor, attn_scores |-> NoTensor]

\* forward(Q, K, V, mask): ok is FALSE when an operation raises
Attention_forward(self, Q, K, V, mask) ==
    IF Rank(Q) < 2 \/ Rank(K) < 2 THEN Failed
    ELSE LET Kt == transpose(K, Rank(K) - 1, Rank(K))
         IN IF ~MatmulOk(Q, Kt) THEN Failed
            ELSE LET raw == scale(matmul(Q, Kt), self.scaling_factor)
                 IN IF ~mask.none /\ ~MaskedFillOk(raw, mask.t) THEN Failed
                    ELSE LET attn_scores == IF mask.none THEN raw
                                            ELSE masked_fill(raw, Masked(mask.t), NINF)
                             attn_weights == Softmax(attn_scores,
                                                     SoftmaxDim(Rank(attn_scores)))
                         IN IF ~MatmulOk(attn_weights, V) THEN Failed
                            ELSE [ok |-> TRUE,
                                  output |-> matmul(attn_weights, V),
                                  attn_weights |-> attn_weights,
                                  raw_scores |-> raw,
                                  attn_scores |-> attn_scores]

\* ---------------------------------------------------- MultiHeadAttention
\* __init__(d_model, n_head, d_k, d_v): seed decides the initial weights
MultiHeadAttention(d_model, n_head, d_k, d_v, seed) ==
    [n_head |-> n_head, d_k |-> d_k, d_v |-> d_v,
     W_Q |-> randn(<<d_k * n_head, d_model>>, seed),
     W_K |-> randn(<<d_k * n_head, d_model>>, seed + 1),
     W_V |-> randn(<<d_v * n_head, d_model>>, seed + 2),
     W_O |-> randn(<<d_model, d_v * n_head>>, seed),
     attention |-> ScaledDotProductAttention(d_k)]

\* W(X).view(batch_size, n_head, -1, d): the heads split off without the transpose
SplitHeadsNoTranspose(X, batch_size, n_head, d) ==
    view(X, <<batch_size, n_head, -1, d>>)

\* W(X).view(batch_size, -1, n_head, d).transpose(1, 2)
SplitOk(X, batch_size, n_head, d) == ViewOk(X, <<batch_size, -1, n_head, d>>)

SplitHeads(X, batch_size, n_head, d) ==
    transpose(view(X, <<batch_size, -1, n_head, d>>), 2, 3)

\* x.transpose(1, 2).contiguous().view(batch_size, -1, d_v): the heads not merged
MergeHeadsOneHead(x, batch_size, n_head, d_v) ==
    view(transpose(x, 2, 3), <<batch_size, -1, d_v>>)

\* x.transpose(1, 2).contiguous().view(batch_size, -1, n_head * d_v)
MergeOk(x, batch_size, n_head, d_v) ==
    Rank(x) >= 3 /\ ViewOk(x, <<batch_size, -1, n_head * d_v>>)

MergeHeads(x, batch_size, n_head, d_v) ==
    view(transpose(x, 2, 3), <<batch_size, -1, n_head * d_v>>)

\* mask.unsqueeze(-1): the new axis put last
MaskForHeadsLastAxis(mask) ==
    IF mask.none THEN mask ELSE Some(unsqueeze(mask.t, Rank(mask.t) + 1))

\* mask.unsqueeze_(1): the caller's mask changed in place
MaskAfterForwardInPlace(mask) ==
    IF mask.none THEN mask ELSE Some(unsqueeze(mask.t, 2))

\* mask.unsqueeze(1): what the attention sees, and what the caller's mask becomes
MaskForHeads(mask) == IF mask.none THEN mask ELSE Some(unsqueeze(mask.t, 2))

MaskAfterForward(mask) == mask

\* the module after a forward call
SelfAfterForward(self) == self

MHAFailed == [ok |-> FALSE, output |-> NoTensor, attn |-> NoTensor,
              Qp |-> NoTensor, Kp |-> NoTensor, Vp |-> NoTensor,
              Qh |-> NoTensor, Kh |-> NoTensor, Vh |-> NoTensor,
              x |-> NoTensor, merged |-> NoTensor, inner |-> Failed]

MHA_forward(self, Q, K, V, mask) ==
    IF Rank(Q) < 1 \/ ~LinearOk(self.W_Q, Q) \/ ~LinearOk(self.W_K, K)
                   \/ ~LinearOk(self.W_V, V) THEN MHAFailed
    ELSE LET batch_size == Size(Q, 1)
             Qp == Linear(self.W_Q, Q)
             Kp == Linear(self.W_K, K)
             Vp == Linear(self.W_V, V)
         IN IF \/ ~SplitOk(Qp, batch_size, self.n_head, self.d_k)
               \/ ~SplitOk(Kp, batch_size, self.n_head, self.d_k)
               \/ ~SplitOk(Vp, batch_size, self.n_head, self.d_v) THEN MHAFailed
            ELSE LET Qh == SplitHeads(Qp, batch_size, self.n_head, self.d_k)
                     Kh == SplitHeads(Kp, batch_size, self.n_head, self.d_k)
                     Vh == SplitHeads(Vp, batch_size, self.n_head, self.d_v)
                     r == Attention_forward(self.attention, Qh, Kh, Vh,
                                            MaskForHeads(mask))
                 IN IF ~r.ok \/ ~MergeOk(r.output, batch_size, self.n_head, self.d_v)
                    THEN MHAFailed
                    ELSE LET merged == MergeHeads(r.output, batch_size,
                                                  self.n_head, self.d_v)
                         IN IF ~LinearOk(self.W_O, merged) THEN MHAFailed ELSE
                            [ok |-> TRUE,
                             output |-> Linear(self.W_O, merged),
                             attn |-> r.attn_weights,
                             Qp |-> Qp, Kp |-> Kp, Vp |-> Vp,
                             Qh |-> Qh, Kh |-> Kh, Vh |-> Vh,
                             x |-> r.output, merged |-> merged, inner |-> r]

\* ------------------------------------------------------------------ state
VARIABLES
    pc,                     \* "start" before the demonstration cell ran, then "ran"
    multi_head_attention,   \* the module the cell constructs
    Q, K, V, mask,          \* the cell's input tensors
    output, attn_weights,   \* what the cell's forward call returned
    ret,                    \* the latest forward call of the module
    attention,              \* a ScaledDotProductAttention used on its own
    att                     \* its latest forward call

vars == <<pc, multi_head_attention, Q, K, V, mask, output, attn_weights, ret,
          attention, att>>

NoModule == [n_head |-> 0, d_k |-> 0, d_v |-> 0, W_Q |-> NoTensor, W_K |-> NoTensor,
             W_V |-> NoTensor, W_O |-> NoTensor, attention |-> [scaling_factor |-> 0]]

NoCall == [op |-> "none", self |-> NoModule,
           Q |-> NoTensor, K |-> NoTensor, V |-> NoTensor, mask |-> None,
           r |-> MHAFailed]

NoAtt == [op |-> "none", d_k |-> 0,
          Q |-> NoTensor, K |-> NoTensor, V |-> NoTensor, mask |-> None,
          r |-> Failed]

Init ==
    /\ pc = "start"
    /\ multi_head_attention = NoModule
    /\ Q = NoTensor /\ K = NoTensor /\ V = NoTensor /\ mask = None
    /\ output = NoTensor /\ attn_weights = NoTensor
    /\ ret = NoCall
    /\ attention = [scaling_factor |-> 0]
    /\ att = NoAtt

\* the hyperparameters the cell may be run with
Configs ==
    {[d_model |-> MaxDim, n_head |-> h, d_k |-> d[1], d_v |-> d[2]] :
        h \in {1, MaxHead}, d \in {<<1, MaxDim>>, <<MaxDim, 1>>}}

\* the masks the cell may build for batch size b and sequence length s
MaskShapes(b, s) == {<<bm, 1, sm>> : bm \in {1, b}, sm \in {1, s}} \cup {<<s>>}

Masks(b, s) ==
    {None} \cup {Some(MaskOf(sh, c, w)) :
                    sh \in MaskShapes(b, s), c \in 0..MaxMaskCode, w \in BOOLEAN}

\* the call record of multi_head_attention(Q, K, V, mask)
CallOf(self, q, k, v, m, op) ==
    [op |-> op, self |-> self, Q |-> q, K |-> k, V |-> v,
     mask |-> m, r |-> MHA_forward(self, q, k, v, m)]

\* the demonstration cell: hyperparameters, construction, random inputs, mask,
\* forward call
RunCell(cfg, b, s, seed, m) ==
    /\ pc = "start"
    /\ multi_head_attention' =
          SelfAfterForward(MultiHeadAttention(cfg.d_model, cfg.n_head, cfg.d_k,
                                              cfg.d_v, seed))
    /\ Q' = randn(<<b, s, cfg.d_model>>, seed)
    /\ K' = randn(<<b, s, cfg.d_model>>, seed + 1)
    /\ V' = randn(<<b, s, cfg.d_model>>, seed + 2)
    /\ ret' = CallOf(MultiHeadAttention(cfg.d_model, cfg.n_head, cfg.d_k, cfg.d_v,
                                        seed), Q', K', V', m, "cell")
    /\ mask' = MaskAfterForward(m)
    /\ output' = ret'.r.output
    /\ attn_weights' = ret'.r.attn
    /\ pc' = "ran"
    /\ UNCHANGED <<attention, att>>

\* multi_head_attention(Q, K, V, mask) once more, on the cell's tensors; the call
\* record says whether a call on other tensors came in between
CallAgain ==
    /\ pc = "ran"
    /\ ret' = CallOf(multi_head_attention, Q, K, V, mask,
                     IF ret.op \in {"other", "again_after_other"}
                     THEN "again_after_other" ELSE "again")
    /\ multi_head_attention' = SelfAfterForward(multi_head_attention)
    /\ mask' = MaskAfterForward(mask)
    /\ UNCHANGED <<pc, Q, K, V, output, attn_weights, attention, att>>

\* a forward call of the module on other tensors
CallOther ==
    /\ pc = "ran"
    /\ ret' = CallOf(multi_head_attention,
                     randn(<<1, MaxSeq, Size(multi_head_attention.W_Q, 2)>>, 1),
                     randn(<<1, MaxSeq, Size(multi_head_attention.W_Q, 2)>>, 1),
                     randn(<<1, MaxSeq, Size(multi_head_attention.W_Q, 2)>>, 1),
                     None, "other")
    /\ multi_head_attention' = SelfAfterForward(multi_head_attention)
    /\ UNCHANGED <<pc, Q, K, V, mask, output, attn_weights, attention, att>>

Next ==
    \/ \E cfg \in Configs, b \in {1, MaxBatch}, s \in {1, MaxSeq}, seed \in 0..MaxSeed :
          \E m \in Masks(b, s) : RunCell(cfg, b, s, seed, m)
    \/ CallAgain
    \/ CallOther

Spec == Init /\ [][Next]_vars

\* ------------------------------------------ calls with unequal input shapes
\* the module constructed and called on Q, K, V of any batch sizes and lengths
CallCross(cfg, bq, bk, bv, sq, sk, sv, m) ==
    /\ pc = "start"
    /\ multi_head_attention' =
          SelfAfterForward(MultiHeadAttention(cfg.d_model, cfg.n_head, cfg.d_k,
                                              cfg.d_v, 0))
    /\ Q' = randn(<<bq, sq, cfg.d_model>>, 0)
    /\ K' = randn(<<bk, sk, cfg.d_model>>, 1)
    /\ V' = randn(<<bv, sv, cfg.d_model>>, 2)
    /\ ret' = CallOf(MultiHeadAttention(cfg.d_model, cfg.n_head, cfg.d_k, cfg.d_v, 0),
                     Q', K', V', m, "cross")
    /\ mask' = MaskAfterForward(m)
    /\ output' = ret'.r.output
    /\ attn_weights' = ret'.r.attn
    /\ pc' = "ran"
    /\ UNCHANGED <<attention, att>>

NextCross ==
    \E cfg \in Configs, bq, bk, bv \in {1, MaxBatch}, sq, sk, sv \in {1, MaxSeq} :
       \E m \in {None, Some(MaskOf(<<1, 1, sk>>, 1, FALSE))} :
          CallCross(cfg, bq, bk, bv, sq, sk, sv, m)

SpecCross == Init /\ [][NextCross]_vars

\* ------------------------------- ScaledDotProductAttention used on its own
\* attention = ScaledDotProductAttention(d_k); attention(Q, K, V, mask) on
\* tensors [b, n_head, seq_len, d]
RunAttention(d_k, b, sq, sk, sv, dq, dk, seed, m) ==
    /\ pc = "start"
    /\ attention' = ScaledDotProductAttention(d_k)
    /\ att' = [op |-> "sdpa", d_k |-> d_k,
               Q |-> randn(<<b, MaxHead, sq, dq>>, seed),
               K |-> randn(<<b, MaxHead, sk, dk>>, seed + 1),
               V |-> randn(<<b, MaxHead, sv, MaxDim>>, seed + 2),
               mask |-> m,
               r |-> Attention_forward(attention',
                                       randn(<<b, MaxHead, sq, dq>>, seed),
                                       randn(<<b, MaxHead, sk, dk>>, seed + 1),
                                       randn(<<b, MaxHead, sv, MaxDim>>, seed + 2), m)]
    /\ pc' = "ran"
    /\ UNCHANGED <<multi_head_attention, Q, K, V, mask, output, attn_weights, ret>>

\* the masks of a direct call: the documented [b, 1, 1, seq_len], and one row of
\* the mask per query position
AttentionMasks(b, sq, sk) ==
    {None} \cup {Some(MaskOf(sh, c, w)) :
                    sh \in {<<b, 1, 1, sk>>, <<sq, sk>>},
                    c \in 0..MaxMaskCode, w \in BOOLEAN}

NextSDPA ==
    \E d_k \in {1, MaxDim}, b \in {1, MaxBatch}, sq, sk, sv \in {1, MaxSeq},
       dq, dk \in {1, MaxDim}, seed \in 0..MaxSeed :
       \E m \in AttentionMasks(b, sq, sk) :
          RunAttention(d_k, b, sq, sk, sv, dq, dk, seed, m)

SpecSDPA == Init /\ [][NextSDPA]_vars

\* ================================================================ claims
Called == ret.op # "none"
Batch == Size(ret.Q, 1)
SeqLen == Size(ret.Q, 2)

\* the entry of a mask, broadcast to (batch, 1, seq_len), for batch element b and
\* key position k
MaskEntry(m, b, k) == m.data[BroadcastIdx(m.shape, <<b, 1, k>>)]

EffectivelyZero(w) == IsFin(w) /\ w.v >= 0 /\ w.v <= TOL

\* C1 as stated: under every mask broadcastable to (batch, 1, seq_len), the
\* attention weight at every key position whose mask entry is 1 is effectively
\* zero, for every batch element, head and query position.
C1_MaskingAnyMask ==
    (Called /\ ret.r.ok /\ ~ret.mask.none) =>
        \A idx \in Indices(ret.r.attn.shape) :
            MaskEntry(ret.mask.t, idx[1], idx[4]) = Fin(1)
                => EffectivelyZero(ret.r.attn.data[idx])

\* C1, amended: under a mask of rank 3, shaped (batch or 1, 1, seq_len or 1), the
\* attention weight at every key position whose mask entry is 1 is exactly zero
\* for every head and query position, in every batch element whose mask leaves
\* at least one key position unmarked.
C1_Masking ==
    (Called /\ ret.r.ok /\ ~ret.mask.none /\ Rank(ret.mask.t) = 3) =>
        \A idx \in Indices(ret.r.attn.shape) :
            (/\ MaskEntry(ret.mask.t, idx[1], idx[4]) = Fin(1)
             /\ \E k \in 1..SeqLen : MaskEntry(ret.mask.t, idx[1], k) # Fin(1))
                => ret.r.attn.data[idx] = Fin(0)

C1_Witness ==
    /\ Called /\ ret.r.ok /\ ~ret.mask.none /\ Rank(ret.mask.t) = 3
    /\ Batch > 1 /\ ret.self.n_head > 1
    /\ \E b \in 1..Batch, k1, k2 \in 1..SeqLen :
          /\ MaskEntry(ret.mask.t, b, k1) = Fin(1)
          /\ MaskEntry(ret.mask.t, b, k2) # Fin(1)
          /\ \A h \in 1..ret.self.n_head, q \in 1..SeqLen :
                ret.r.attn.data[<<b, h, q, k1>>] = Fin(0)

\* C2: every forward call on inputs shaped (B, S, d_model), with or without a
\* mask, returns an output shaped (B, S, d_model) and attention weights shaped
\* (B, n_head, S, S).
C2_Shape ==
    Called =>
        /\ ret.r.ok
        /\ ret.r.output.shape = <<Batch, SeqLen, Size(ret.self.W_Q, 2)>>
        /\ ret.r.attn.shape = <<Batch, ret.self.n_head, SeqLen, SeqLen>>

C2_Witness ==
    /\ Called /\ ret.r.ok /\ ~ret.mask.none
    /\ Batch > 1 /\ SeqLen > 1 /\ ret.self.n_head > 1 /\ ret.self.d_k # ret.self.d_v
    /\ ret.r.output.shape = ret.Q.shape
    /\ ret.r.attn.shape = <<Batch, ret.self.n_head, SeqLen, SeqLen>>

\* the mask entry and the unmasked score that a score of the direct call reads
AttMaskAt(idx) == att.mask.t.data[BroadcastIdx(att.mask.t.shape, idx)]
AttRawAt(idx) == att.r.raw_scores.data[BroadcastIdx(att.r.raw_scores.shape, idx)]
AttCalled == att.op = "sdpa" /\ att.r.ok

\* C3 as stated: every nonzero mask entry has its score replaced by -inf, and a
\* zero entry leaves the score unchanged.
C3_NonzeroMasks ==
    (AttCalled /\ ~att.mask.none) =>
        \A idx \in Indices(att.r.attn_scores.shape) :
            att.r.attn_scores.data[idx] =
                IF AttMaskAt(idx) # Fin(0) THEN NINF ELSE AttRawAt(idx)

\* C3, amended: exactly the mask entries equal to 1 have their score replaced by
\* -inf; every other entry, zero or not, leaves the score unchanged.
C3_MaskSemantics ==
    (AttCalled /\ ~att.mask.none) =>
        \A idx \in Indices(att.r.attn_scores.shape) :
            att.r.attn_scores.data[idx] =
                IF AttMaskAt(idx) = Fin(1) THEN NINF ELSE AttRawAt(idx)

C3_Witness ==
    /\ AttCalled /\ ~att.mask.none
    /\ \E i1, i2 \in Indices(att.r.attn_scores.shape) :
          /\ AttMaskAt(i1) = Fin(1) /\ att.r.attn_scores.data[i1] = NINF
          /\ AttMaskAt(i2) = Fin(2) /\ att.r.attn_scores.data[i2] = AttRawAt(i2)
          /\ IsFin(att.r.attn_scores.data[i2])

\* the weights of row p (batch, head, query position) sum to 1 within TOL
RowSumsToOne(W, p) ==
    LET n == Last(W.shape)
    IN /\ \A k \in 1..n : IsFin(W.data[p \o <<k>>])
       /\ IntSum([k \in 1..n |-> W.data[p \o <<k>>].v], n) - W_ONE \in (-TOL)..TOL

\* the mask of the direct call marks every key position of row p
RowFullyMasked(p) ==
    /\ ~att.mask.none
    /\ \A k \in 1..Last(att.r.attn_weights.shape) : AttMaskAt(p \o <<k>>) = Fin(1)

\* C4 as stated: under any mask the weights of every (batch, head, query
\* position) row sum to 1 along the key axis, within tolerance.
C4_NormalisedAnyMask ==
    AttCalled =>
        \A p \in Indices(Front(att.r.attn_weights.shape)) :
            RowSumsToOne(att.r.attn_weights, p)

\* C4, amended: the weights of every row that has at least one key position the
\* mask does not mark sum to 1 along the key axis, within tolerance.
C4_Normalised ==
    AttCalled =>
        \A p \in Indices(Front(att.r.attn_weights.shape)) :
            ~RowFullyMasked(p) => RowSumsToOne(att.r.attn_weights, p)

C4_Witness ==
    /\ AttCalled /\ ~att.mask.none
    /\ Size(att.Q, 1) > 1 /\ Size(att.Q, 3) > 1 /\ Size(att.K, 3) > 1
    /\ \E p1, p2 \in Indices(Front(att.r.attn_weights.shape)) :
          /\ ~RowFullyMasked(p1)
          /\ \E k \in 1..Size(att.K, 3) : AttMaskAt(p1 \o <<k>>) = Fin(1)
          /\ RowSumsToOne(att.r.attn_weights, p1)
          /\ RowSumsToOne(att.r.attn_weights, p2)
          /\ \E k \in 1..Size(att.K, 3) :
                att.r.attn_weights.data[p2 \o <<k>>].v \notin {0, W_ONE}

\* C5 as stated: a forward call whose Q, K and V do not all have the same batch
\* size returns nothing: it ends in an error.
C5_BatchSizeError ==
    (ret.op = "cross" /\ ~(Size(ret.Q, 1) = Size(ret.K, 1)
                           /\ Size(ret.K, 1) = Size(ret.V, 1)))
        => ~ret.r.ok

\* C6 as stated: a direct call whose Q or K has a last dimension other than the
\* d_k given at construction returns nothing: it ends in an error.
C6_DkMismatchError ==
    (att.op = "sdpa" /\ (Last(att.Q.shape) # att.d_k \/ Last(att.K.shape) # att.d_k))
        => ~att.r.ok

ZeroMask(m) == ~m.none /\ \A idx \in Indices(m.t.shape) : m.t.data[idx] = Fin(0)

\* the same call without a mask
Unmasked == MHA_forward(ret.self, ret.Q, ret.K, ret.V, None)

\* C7: a forward call with a mask whose entries are all zero returns the output
\* and the attention weights of the same call with no mask, for the module and
\* for the attention inside it.
C7_NoMaskEquivalence ==
    (Called /\ ZeroMask(ret.mask)) =>
        LET u == Unmasked
        IN /\ ret.r.ok /\ u.ok
           /\ ret.r.output = u.output
           /\ ret.r.attn = u.attn
           /\ ret.r.inner.output = u.inner.output
           /\ ret.r.inner.attn_weights = u.inner.attn_weights

C7_Witness ==
    /\ Called /\ ZeroMask(ret.mask) /\ ret.r.ok
    /\ Batch > 1 /\ SeqLen > 1 /\ Rank(ret.mask.t) = 3
    /\ ret.r.output = Unmasked.output
    /\ \E idx \in Indices(ret.r.attn.shape) : ret.r.attn.data[idx].v \notin {0, W_ONE}

FullRows == {p \in Indices(Front(att.r.attn_weights.shape)) : RowFullyMasked(p)}

\* the direct call with the mask's entries for those rows cleared
WithoutFullRows(full) ==
    Attention_forward(attention, att.Q, att.K, att.V,
        Some(Tensor(att.r.attn_weights.shape,
                    [idx \in Indices(att.r.attn_weights.shape) |->
                        IF Front(idx) \in full THEN Fin(0) ELSE AttMaskAt(idx)])))

RowFinite(T, p) == \A j \in 1..Last(T.shape) : IsFin(T.data[p \o <<j>>])
RowNaN(T, p) == \A j \in 1..Last(T.shape) : T.data[p \o <<j>>] = NAN
\* T with the rows in rows replaced by those of U
Patch(T, U, rows) ==
    Tensor(T.shape, [idx \in Indices(T.shape) |->
                        IF Front(idx) \in rows THEN U.data[idx] ELSE T.data[idx]])

\* C9: a direct call whose mask marks every key position of a query row raises
\* no error; every attention weight and every output element of such a row is
\* NaN, and every other row is finite and is what the call returns when no row
\* is marked entirely.
C9_FullyMaskedRow ==
    (/\ att.op = "sdpa" /\ ~att.mask.none
     /\ Last(att.Q.shape) = Last(att.K.shape)
     /\ Size(att.K, 3) = Size(att.V, 3)) =>
        /\ att.r.ok
        /\ LET full == FullRows
               w == WithoutFullRows(full)
           IN /\ \A p \in Indices(Front(att.r.attn_weights.shape)) :
                 IF p \in full
                 THEN RowNaN(att.r.attn_weights, p) /\ RowNaN(att.r.output, p)
                 ELSE RowFinite(att.r.attn_weights, p) /\ RowFinite(att.r.output, p)
              /\ w.attn_weights = Patch(att.r.attn_weights, w.attn_weights, full)
              /\ w.output = Patch(att.r.output, w.output, full)

C9_Witness ==
    /\ AttCalled /\ ~att.mask.none /\ Size(att.K, 3) > 1
    /\ \E p1, p2 \in Indices(Front(att.r.attn_weights.shape)) :
          /\ p1[1] = p2[1] /\ p1[2] = p2[2]
          /\ RowFullyMasked(p1)
          /\ RowNaN(att.r.attn_weights, p1) /\ RowNaN(att.r.output, p1)
          /\ ~RowFullyMasked(p2)
          /\ RowFinite(att.r.attn_weights, p2) /\ RowFinite(att.r.output, p2)

\* flat column h * d + j (0-based head and offset) of a (batch, seq_len, n_head * d)
\* tensor, as a 1-based index
Column(h, j, d) == (h - 1) * d + j

SplitsAs(Th, Tp, d) ==
    /\ Th.shape = <<Tp.shape[1], ret.self.n_head, Tp.shape[2], d>>
    /\ \A idx \in Indices(Th.shape) :
          Th.data[idx] = Tp.data[<<idx[1], idx[3], Column(idx[2], idx[4], d)>>]

\* C10: the split places column h * d + j of position s of batch element b at
\* [b, h, s, j]; the merge places [b, h, s, j] of the attention output at
\* [b, s, h * d_v + j]; splitting and then merging returns the tensor split.
C10_SplitMerge ==
    (Called /\ ret.r.ok) =>
        /\ SplitsAs(ret.r.Qh, ret.r.Qp, ret.self.d_k)
        /\ SplitsAs(ret.r.Kh, ret.r.Kp, ret.self.d_k)
        /\ SplitsAs(ret.r.Vh, ret.r.Vp, ret.self.d_v)
        /\ ret.r.merged.shape = <<Batch, SeqLen, ret.self.n_head * ret.self.d_v>>
        /\ \A idx \in Indices(ret.r.x.shape) :
              ret.r.merged.data[<<idx[1], idx[3],
                                  Column(idx[2], idx[4], ret.self.d_v)>>]
                 = ret.r.x.data[idx]
        /\ MergeHeads(ret.r.Vh, Batch, ret.self.n_head, ret.self.d_v) = ret.r.Vp
        /\ MergeHeads(ret.r.Kh, Batch, ret.self.n_head, ret.self.d_k) = ret.r.Kp

C10_Witness ==
    /\ Called /\ ret.r.ok
    /\ Batch > 1 /\ SeqLen > 1 /\ ret.self.n_head > 1 /\ ret.self.d_v > 1
    /\ SplitsAs(ret.r.Vh, ret.r.Vp, ret.self.d_v)
    /\ MergeHeads(ret.r.Vh, Batch, ret.self.n_head, ret.self.d_v) = ret.r.Vp
    /\ \E i1, i2 \in Indices(ret.r.Vh.shape) : ret.r.Vh.data[i1] # ret.r.Vh.data[i2]

====
